---- MODULE Spec2Model ----
(***************************************************************************)
(* A model of the two scripts of objaverse-synthetic:                      *)
(*   scripts/blender_script.py     the Multi-View Capturer  (Spec)          *)
(*   scripts/download_objaverse.py the Asset Selector       (SelSpec)       *)
(* File names are sequences of their dot-separated components              *)
(* ("chair.v2.glb" is <<"chair", "v2", "glb">>), decimal numerals are      *)
(* sequences of digits, command-line tokens are sequences of characters.   *)
(***************************************************************************)
EXTENDS Integers, Sequences, FiniteSets, TLC

VARIABLES
    pc,              \* position of the Capturer in blender_script.py
    object_path,     \* args.object_path: [scheme, name]
    argv_camera_dist,\* the token given to --camera_dist (<<>>: not given)
    num_images,      \* args.num_images
    camera_dist,     \* args.camera_dist after parsing
    has_mesh,        \* whether the asset holds at least one mesh object
    local_path,      \* local_path of __main__: [loc, name]
    tmp_objects,     \* the files of the directory tmp-objects
    user_files,      \* the asset files the user owns (local references)
    dirs,            \* the directories that exist under output_dir
    outfs,           \* the files under output_dir: path -> content
    pre_outfs,       \* outfs as it was when the invocation started
    i,               \* loop index of the render loop
    mode_ix,         \* position of the loop that writes the manifests
    frames,          \* frames[mode] of save_images
    oplog,           \* the operations performed so far, in order
    stdout,          \* the lines printed by __main__
    raised,          \* whether an exception has been raised
    sel_pc,          \* position of the Selector in download_objaverse.py
    sel_args,        \* Args of the Selector
    like,            \* annotation[uid]['likeCount'] of the catalog snapshot
    json_uids,       \* the content of the file uids.json
    bucket,          \* the keys of the bucket objaverse-images
    listed,          \* whether the bucket has been listed
    uids,            \* uids of the Selector
    selected,        \* uids as they were before the completed filter
    written          \* the content of input_models_path.json, once written

cvars == <<pc, object_path, argv_camera_dist, num_images, camera_dist, has_mesh,
           local_path, tmp_objects, user_files, dirs, outfs, pre_outfs, i,
           mode_ix, frames, oplog, stdout, raised>>
svars == <<sel_pc, sel_args, like, json_uids, bucket, listed, uids, selected, written>>
vars == <<cvars, svars>>

(***************************************************************************)
(* Bounds of the model.                                                    *)
(***************************************************************************)
MaxImages == 4

(***************************************************************************)
(* Constants of blender_script.py.                                         *)
(***************************************************************************)
DefaultCameraDist == 4
PadWidth == 3
SplitPeriod == 3

ModeSet == {"train", "val", "test"}

(***************************************************************************)
(* Strings and numerals.                                                   *)
(***************************************************************************)
DigitChars == <<"0", "1", "2", "3", "4", "5", "6", "7", "8", "9">>
IsDigit(c) == \E d \in 1..10 : DigitChars[d] = c
DigitVal(c) == (CHOOSE d \in 1..10 : DigitChars[d] = c) - 1

\* int(token) of argparse's type=int: digits only
IsInt(tok) == Len(tok) > 0 /\ \A k \in 1..Len(tok) : IsDigit(tok[k])
RECURSIVE IntOf(_)
IntOf(tok) ==
    IF Len(tok) = 0 THEN 0
    ELSE 10 * IntOf(SubSeq(tok, 1, Len(tok) - 1)) + DigitVal(tok[Len(tok)])

\* str(i) for i >= 0
RECURSIVE Str(_)
Str(n) == IF n < 10 THEN <<n>> ELSE Append(Str(n \div 10), n % 10)

\* s.zfill(w)
RECURSIVE Zfill(_, _)
Zfill(s, w) == IF Len(s) >= w THEN s ELSE Zfill(<<0>> \o s, w)

\* f"{i:03d}" of the render path
Format03d(n) == Zfill(Str(n), PadWidth)

\* the number part of a pose record's file_path: str(i).zfill(3)
FrameNum_NoPad(n) == Str(n)
FrameNum(n) == Zfill(Str(n), PadWidth)

(***************************************************************************)
(* Names.                                                                  *)
(***************************************************************************)
\* os.path.basename(object_file).split(".")[0], as a directory name
Uid(name) == <<name[1]>>

\* object_url.split("/")[-1].split(".")[0] and f"{uid}.glb"
DownloadName(name) == <<name[1], "glb">>
DownloadTmpName(name) == <<name[1], "glb", "tmp">>

\* object_path.endswith(".glb")
EndsWith(name, ext) == Len(name) >= 2 /\ name[Len(name)] = ext

ImagePath(d, mode, n) == [dir |-> d, kind |-> "png", mode |-> mode, num |-> Format03d(n)]
ManifestPath(d, mode) == [dir |-> d, kind |-> "transforms", mode |-> mode, num |-> <<>>]
MeshPath(d) == [dir |-> d, kind |-> "mesh", mode |-> "", num |-> <<>>]

OldContent == [state |-> "old", frames |-> <<>>]

(***************************************************************************)
(* The render loop's pure parts.                                           *)
(***************************************************************************)
\* lines 248-253
SplitOf_Swapped(n) ==
    IF n % SplitPeriod = 2 THEN "val"
    ELSE IF n % SplitPeriod = 1 THEN "test" ELSE "train"
SplitOf(n) ==
    IF n % SplitPeriod = 2 THEN "test"
    ELSE IF n % SplitPeriod = 1 THEN "val" ELSE "train"

\* get_frame_poses: the radius stands for the norm of the translation column
get_frame_poses(radius, n, mode) ==
    [file_path |-> [mode |-> mode, num |-> FrameNum(n)], radius |-> radius]

\* range(args.num_images) is exhausted
LoopDone_Early(n) == n >= 1
LoopDone(n) == n >= num_images

\* the order of the loop that writes the manifests (line 280)
ManifestOrder == <<"train", "val", "test">>

\* the positions of __main__ inside the try block (lines 342-353)
PipelinePcs == {"acquire", "urlretrieve", "rename", "skipcheck", "reset", "import",
                "normalize", "light", "camera", "loop", "open", "dump", "mesh",
                "finished", "remove"}
InTry_NotRemove(p) == p \in PipelinePcs \ {"remove"}
InTry(p) == p \in PipelinePcs

(***************************************************************************)
(* Inputs.                                                                 *)
(***************************************************************************)
AssetNames == {<<"chair", "glb">>, <<"chair", "fbx">>, <<"chair", "obj">>,
               <<"chair", "v2", "glb">>}
ObjectPaths == [scheme : {"", "http"}, name : AssetNames]
CameraDistTokens == {<<>>, <<"2">>, <<"1", "2">>, <<"1", ".", "2">>}
OutputDirs == {<<"chair">>, <<"chair", "v2">>}
PreStates == {"absent", "empty", "val_only", "rendered"}

PreFiles(d, st) ==
    IF st = "val_only" THEN {ManifestPath(d, "val")}
    ELSE IF st = "rendered"
         THEN {ManifestPath(d, m) : m \in ModeSet} \cup {MeshPath(d), ImagePath(d, "train", 0)}
         ELSE {}

InitFs(pre) ==
    LET files == UNION {PreFiles(d, pre[d]) : d \in OutputDirs}
    IN [p \in files |-> OldContent]

SelIdle ==
    /\ sel_pc = "idle"
    /\ sel_args = [start_i |-> 0, end_i |-> 0, n_objects |-> 0,
                   skip_completed |-> FALSE, uid_json_path |-> "None"]
    /\ like = <<>>
    /\ json_uids = <<>>
    /\ bucket = <<>>
    /\ listed = FALSE
    /\ uids = <<>>
    /\ selected = <<>>
    /\ written = <<>>

Init ==
    /\ pc = "parse"
    /\ object_path \in ObjectPaths
    /\ argv_camera_dist \in CameraDistTokens
    /\ num_images \in 0..MaxImages
    /\ camera_dist = DefaultCameraDist
    /\ has_mesh \in BOOLEAN
    /\ local_path = [loc |-> "none", name |-> <<>>]
    /\ tmp_objects = {}
    /\ user_files = IF object_path.scheme = "" THEN {object_path.name} ELSE {}
    /\ \E pre \in [OutputDirs -> PreStates] :
          /\ dirs = {d \in OutputDirs : pre[d] # "absent"}
          /\ outfs = InitFs(pre)
          /\ pre_outfs = InitFs(pre)
    /\ i = 0
    /\ mode_ix = 1
    /\ frames = [m \in ModeSet |-> <<>>]
    /\ oplog = <<>>
    /\ stdout = <<>>
    /\ raised = FALSE
    /\ SelIdle

Log(op) == oplog' = Append(oplog, op)

(***************************************************************************)
(* Module level: argument parsing (lines 32-47).                           *)
(***************************************************************************)
ParseArgs ==
    /\ pc = "parse"
    /\ \/ /\ argv_camera_dist = <<>>
          /\ pc' = "acquire"
          /\ UNCHANGED camera_dist
       \/ /\ argv_camera_dist # <<>>
          /\ IsInt(argv_camera_dist)
          /\ camera_dist' = IntOf(argv_camera_dist)
          /\ pc' = "acquire"
       \/ /\ argv_camera_dist # <<>>
          /\ ~IsInt(argv_camera_dist)
          /\ pc' = "usage_error"
          /\ UNCHANGED camera_dist
    /\ UNCHANGED <<object_path, argv_camera_dist, num_images, has_mesh, local_path,
                   tmp_objects, user_files, dirs, outfs, pre_outfs, mode_ix, i, frames,
                   oplog, stdout, raised, svars>>

(***************************************************************************)
(* __main__ (lines 341-356) and download_object (lines 326-338).           *)
(***************************************************************************)
Acquire ==
    /\ pc = "acquire"
    /\ \/ /\ object_path.scheme = "http"
          /\ pc' = "urlretrieve"
          /\ UNCHANGED local_path
       \/ /\ object_path.scheme # "http"
          /\ local_path' = [loc |-> "user", name |-> object_path.name]
          /\ pc' = "skipcheck"
    /\ UNCHANGED <<object_path, argv_camera_dist, num_images, camera_dist, has_mesh,
                   tmp_objects, user_files, dirs, outfs, pre_outfs, mode_ix, i, frames,
                   oplog, stdout, raised, svars>>

\* urllib.request.urlretrieve(object_url, tmp_local_path): it returns, or it
\* raises before the file is created, or it raises with the file partly written
Urlretrieve ==
    /\ pc = "urlretrieve"
    /\ \/ /\ tmp_objects' = tmp_objects \cup {DownloadTmpName(object_path.name)}
          /\ pc' = "rename"
          /\ Log("download")
          /\ UNCHANGED raised
       \/ /\ tmp_objects' = tmp_objects \cup {DownloadTmpName(object_path.name)}
          /\ pc' = IF InTry(pc) THEN "except" ELSE "uncaught"
          /\ raised' = TRUE
          /\ Log("download")
       \/ /\ pc' = IF InTry(pc) THEN "except" ELSE "uncaught"
          /\ raised' = TRUE
          /\ UNCHANGED <<tmp_objects, oplog>>
    /\ UNCHANGED <<object_path, argv_camera_dist, num_images, camera_dist, has_mesh,
                   local_path, user_files, dirs, outfs, pre_outfs, mode_ix, i, frames,
                   stdout, svars>>

\* os.rename(tmp_local_path, local_path); return os.path.abspath(local_path)
Rename ==
    /\ pc = "rename"
    /\ tmp_objects' = (tmp_objects \ {DownloadTmpName(object_path.name)})
                        \cup {DownloadName(object_path.name)}
    /\ local_path' = [loc |-> "tmp", name |-> DownloadName(object_path.name)]
    /\ pc' = "skipcheck"
    /\ Log("rename")
    /\ UNCHANGED <<object_path, argv_camera_dist, num_images, camera_dist, has_mesh,
                   user_files, dirs, outfs, pre_outfs, mode_ix, i, frames, stdout, raised, svars>>

(***************************************************************************)
(* save_images (lines 215-292).                                            *)
(***************************************************************************)
object_uid == Uid(local_path.name)

\* lines 217-221
SkipCheck ==
    /\ pc = "skipcheck"
    /\ \/ /\ ManifestPath(object_uid, "train") \in DOMAIN outfs
          /\ pc' = "finished"
          /\ Log("skip")
       \/ /\ ManifestPath(object_uid, "train") \notin DOMAIN outfs
          /\ pc' = "reset"
          /\ UNCHANGED oplog
    /\ UNCHANGED <<object_path, argv_camera_dist, num_images, camera_dist, has_mesh,
                   local_path, tmp_objects, user_files, dirs, outfs, pre_outfs, mode_ix, i,
                   frames, stdout, raised, svars>>

Same ==
    UNCHANGED <<object_path, argv_camera_dist, num_images, camera_dist, has_mesh,
                local_path, tmp_objects, user_files, dirs, outfs, pre_outfs, mode_ix, i,
                frames, stdout, svars>>

\* line 223
ResetScene ==
    /\ pc = "reset"
    /\ pc' = "import"
    /\ Log("reset")
    /\ UNCHANGED raised
    /\ Same

\* load_object (lines 124-131)
LoadObject ==
    /\ pc = "import"
    /\ \/ /\ EndsWith(local_path.name, "glb") \/ EndsWith(local_path.name, "fbx")
          /\ pc' = "normalize"
          /\ Log("import")
          /\ UNCHANGED raised
       \/ /\ ~(EndsWith(local_path.name, "glb") \/ EndsWith(local_path.name, "fbx"))
          /\ pc' = IF InTry(pc) THEN "except" ELSE "uncaught"
          /\ raised' = TRUE
          /\ UNCHANGED oplog
    /\ Same

\* normalize_scene (lines 163-174) with scene_bbox's RuntimeError (lines 146-147)
NormalizeScene ==
    /\ pc = "normalize"
    /\ \/ /\ has_mesh
          /\ pc' = "light"
          /\ Log("normalize")
          /\ UNCHANGED raised
       \/ /\ ~has_mesh
          /\ pc' = IF InTry(pc) THEN "except" ELSE "uncaught"
          /\ raised' = TRUE
          /\ UNCHANGED oplog
    /\ Same

\* line 227
AddLighting ==
    /\ pc = "light"
    /\ pc' = "camera"
    /\ Log("light")
    /\ UNCHANGED raised
    /\ Same

\* lines 228-244
SetupCamera ==
    /\ pc = "camera"
    /\ pc' = "loop"
    /\ i' = 0
    /\ frames' = [m \in ModeSet |-> <<>>]
    /\ Log("camera")
    /\ UNCHANGED <<object_path, argv_camera_dist, num_images, camera_dist, has_mesh,
                   local_path, tmp_objects, user_files, dirs, outfs, pre_outfs, mode_ix,
                   stdout, raised, svars>>

\* one iteration of the render loop (lines 245-278)
RenderFrame ==
    /\ pc = "loop"
    /\ ~LoopDone(i)
    /\ LET mode == SplitOf(i)
           render_path == ImagePath(object_uid, mode, i)
       IN /\ dirs' = dirs \cup {object_uid}
          /\ outfs' = [p \in DOMAIN outfs \cup {render_path} |->
                         IF p = render_path
                         THEN [state |-> "image",
                               frames |-> <<get_frame_poses(camera_dist, i, mode)>>]
                         ELSE outfs[p]]
          /\ frames' = [frames EXCEPT
                          ![mode] = Append(@, get_frame_poses(camera_dist, i, mode))]
    /\ i' = i + 1
    /\ Log("render")
    /\ UNCHANGED <<pc, object_path, argv_camera_dist, num_images, camera_dist, has_mesh,
                   local_path, tmp_objects, user_files, pre_outfs, mode_ix, stdout, raised, svars>>

\* the loop ends; the manifests are written next (line 280)
LoopExit ==
    /\ pc = "loop"
    /\ LoopDone(i)
    /\ pc' = "open"
    /\ mode_ix' = 1
    /\ UNCHANGED <<object_path, argv_camera_dist, num_images, camera_dist, has_mesh,
                   local_path, tmp_objects, user_files, dirs, outfs, pre_outfs, i,
                   frames, oplog, stdout, raised, svars>>

\* open(f'{args.output_dir}/{object_uid}/transforms_{mode}.json', 'w') (line 281):
\* the file is created empty, or the directory is missing
OpenManifest ==
    /\ pc = "open"
    /\ LET path == ManifestPath(object_uid, ManifestOrder[mode_ix])
       IN \/ /\ object_uid \in dirs
             /\ outfs' = [p \in DOMAIN outfs \cup {path} |->
                            IF p = path THEN [state |-> "empty", frames |-> <<>>]
                            ELSE outfs[p]]
             /\ pc' = "dump"
             /\ Log("open")
             /\ UNCHANGED raised
          \/ /\ object_uid \notin dirs
             /\ pc' = IF InTry(pc) THEN "except" ELSE "uncaught"
             /\ raised' = TRUE
             /\ UNCHANGED <<outfs, oplog>>
    /\ UNCHANGED <<object_path, argv_camera_dist, num_images, camera_dist, has_mesh,
                   local_path, tmp_objects, user_files, dirs, pre_outfs, mode_ix, i,
                   frames, stdout, svars>>

\* to_export['frames'] = frames[mode]; json.dump(to_export, f) (lines 282-283)
DumpManifest ==
    /\ pc = "dump"
    /\ LET mode == ManifestOrder[mode_ix]
           path == ManifestPath(object_uid, mode)
       IN outfs' = [outfs EXCEPT ![path] = [state |-> "written", frames |-> frames[mode]]]
    /\ \/ /\ mode_ix < Len(ManifestOrder)
          /\ mode_ix' = mode_ix + 1
          /\ pc' = "open"
       \/ /\ mode_ix = Len(ManifestOrder)
          /\ pc' = "mesh"
          /\ UNCHANGED mode_ix
    /\ Log("dump")
    /\ UNCHANGED <<object_path, argv_camera_dist, num_images, camera_dist, has_mesh,
                   local_path, tmp_objects, user_files, dirs, pre_outfs, i, frames,
                   stdout, raised, svars>>

\* lines 284-292
MeshExport ==
    /\ pc = "mesh"
    /\ LET path == MeshPath(object_uid)
       IN outfs' = [p \in DOMAIN outfs \cup {path} |->
                      IF p = path THEN [state |-> "mesh", frames |-> <<>>] ELSE outfs[p]]
    /\ pc' = "finished"
    /\ Log("export")
    /\ UNCHANGED <<object_path, argv_camera_dist, num_images, camera_dist, has_mesh,
                   local_path, tmp_objects, user_files, dirs, pre_outfs, mode_ix, i, frames,
                   stdout, raised, svars>>

\* lines 349-350
Finished ==
    /\ pc = "finished"
    /\ stdout' = Append(stdout, [line |-> "Finished", path |-> local_path.name])
    /\ pc' = IF object_path.scheme = "http" THEN "remove" ELSE "exit"
    /\ UNCHANGED <<object_path, argv_camera_dist, num_images, camera_dist, has_mesh,
                   local_path, tmp_objects, user_files, dirs, outfs, pre_outfs, mode_ix, i,
                   frames, oplog, raised, svars>>

\* lines 352-353
RemoveDownloaded ==
    /\ pc = "remove"
    /\ tmp_objects' = tmp_objects \ {local_path.name}
    /\ pc' = "exit"
    /\ Log("remove")
    /\ UNCHANGED <<object_path, argv_camera_dist, num_images, camera_dist, has_mesh,
                   local_path, user_files, dirs, outfs, pre_outfs, mode_ix, i, frames,
                   stdout, raised, svars>>

\* a call into the host application, the file system or the network raises
Raise ==
    /\ pc \in {"rename", "skipcheck", "reset", "import", "normalize", "light",
                "camera", "loop", "open", "dump", "mesh", "remove"}
    /\ pc = "loop" => ~LoopDone(i)
    /\ pc' = IF InTry(pc) THEN "except" ELSE "uncaught"
    /\ raised' = TRUE
    /\ UNCHANGED oplog
    /\ Same

\* lines 354-356
Except ==
    /\ pc = "except"
    /\ stdout' = Append(stdout, [line |-> "Failed to render", path |-> object_path.name])
    /\ pc' = "exit"
    /\ UNCHANGED <<object_path, argv_camera_dist, num_images, camera_dist, has_mesh,
                   local_path, tmp_objects, user_files, dirs, outfs, pre_outfs, mode_ix, i,
                   frames, oplog, raised, svars>>

Next ==
    \/ ParseArgs
    \/ Acquire
    \/ Urlretrieve
    \/ Rename
    \/ SkipCheck
    \/ ResetScene
    \/ LoadObject
    \/ NormalizeScene
    \/ AddLighting
    \/ SetupCamera
    \/ RenderFrame
    \/ LoopExit
    \/ OpenManifest
    \/ DumpManifest
    \/ MeshExport
    \/ Finished
    \/ RemoveDownloaded
    \/ Raise
    \/ Except

Spec == Init /\ [][Next]_vars

(***************************************************************************)
(* The Asset Selector: download_objaverse.py.                              *)
(***************************************************************************)
MaxLike == 1
DefaultNObjects == 10
ExpectedFileCount == 12

\* objaverse.load_uids() of the catalog snapshot
Catalog == <<"u1", "u2", "u3", "u4">>
CatalogUids == {Catalog[k] : k \in 1..Len(Catalog)}

\* object_paths[uid] and the URL built from it (lines 70-73)
UrlOf(uid) == [base |-> "https://huggingface.co/datasets/allenai/objaverse/resolve/main/",
               path |-> <<"glbs", uid, "glb">>]

\* random.seed(42); random.shuffle(uids): the permutation drawn for each length
Perm42 == <<
    <<1>>,
    <<2, 1>>,
    <<2, 1, 3>>,
    <<3, 2, 4, 1>>,
    <<4, 2, 3, 5, 1>>,
    <<4, 2, 3, 5, 1, 6>> >>
Shuffle42(s) == [k \in 1..Len(s) |-> s[Perm42[Len(s)][k]]]

Min(a, b) == IF a <= b THEN a ELSE b

\* s[a:b] for a, b >= 0
PySlice(s, a, b) ==
    LET lo == Min(a, Len(s))
        hi == Min(b, Len(s))
    IN IF lo >= hi THEN <<>> ELSE SubSeq(s, lo + 1, hi)

Reverse(s) == [k \in 1..Len(s) |-> s[Len(s) + 1 - k]]

\* a stable ascending sort by likeCount
InsertByLike(t, x) ==
    LET p == Cardinality({k \in 1..Len(t) : like[t[k]] <= like[x]})
    IN SubSeq(t, 1, p) \o <<x>> \o SubSeq(t, p + 1, Len(t))
RECURSIVE StableSortByLike(_)
StableSortByLike(s) ==
    IF Len(s) = 0 THEN <<>>
    ELSE InsertByLike(StableSortByLike(SubSeq(s, 1, Len(s) - 1)), s[Len(s)])

\* sorted(uids, key=likeCount, reverse=True): equal keys keep their order
SortedByLikeDesc_TiesReversed(s) == Reverse(StableSortByLike(s))
SortedByLikeDesc(s) == Reverse(StableSortByLike(Reverse(s)))

\* os.path.exists(args.uid_json_path): None is not a path
PathExists(path) ==
    IF path = "None" THEN "TypeError"
    ELSE IF path = "uids.json" THEN "yes" ELSE "no"

\* dir_counts of get_completed_uids (lines 39-42)
RECURSIVE DirCounts(_)
DirCounts(files) ==
    IF Len(files) = 0 THEN <<>>
    ELSE LET rest == DirCounts(SubSeq(files, 1, Len(files) - 1))
             d == files[Len(files)][1]
         IN [x \in DOMAIN rest \cup {d} |->
                IF x = d THEN (IF d \in DOMAIN rest THEN rest[d] ELSE 0) + 1
                ELSE rest[x]]

\* line 45
IsCompleteCount_AtLeast(c) == c >= ExpectedFileCount
IsCompleteCount(c) == c = ExpectedFileCount

get_completed_uids(files) ==
    LET dir_counts == DirCounts(files)
    IN {d \in DOMAIN dir_counts : IsCompleteCount(dir_counts[d])}

\* [uid for uid in uids if uid not in completed_uids]
RECURSIVE Without(_, _)
Without(s, completed) ==
    IF Len(s) = 0 THEN <<>>
    ELSE IF s[1] \in completed THEN Without(Tail(s), completed)
         ELSE <<s[1]>> \o Without(Tail(s), completed)

\* the listing of a bucket that holds cnt[d] objects under each prefix d
RECURSIVE KeysOf(_, _)
KeysOf(d, n) == IF n = 0 THEN <<>> ELSE Append(KeysOf(d, n - 1), <<d, n>>)
RECURSIVE Listing(_, _)
Listing(cnt, k) ==
    IF k = 0 THEN <<>> ELSE Listing(cnt, k - 1) \o KeysOf(Catalog[k], cnt[Catalog[k]])

Buckets ==
    {Listing([u \in CatalogUids |-> IF u \in C THEN ExpectedFileCount ELSE c],
             Len(Catalog)) :
        C \in SUBSET CatalogUids,
        c \in {0, ExpectedFileCount - 1, ExpectedFileCount + 1}}

JsonLists == {<<>>, <<"u4">>, <<"u2", "u1", "u3">>}

CapturerIdle ==
    /\ pc = "idle"
    /\ object_path = [scheme |-> "", name |-> <<>>]
    /\ argv_camera_dist = <<>>
    /\ num_images = 0
    /\ camera_dist = DefaultCameraDist
    /\ has_mesh = FALSE
    /\ local_path = [loc |-> "none", name |-> <<>>]
    /\ tmp_objects = {}
    /\ user_files = {}
    /\ dirs = {}
    /\ outfs = <<>>
    /\ pre_outfs = <<>>
    /\ i = 0
    /\ mode_ix = 1
    /\ frames = [m \in ModeSet |-> <<>>]
    /\ oplog = <<>>
    /\ stdout = <<>>
    /\ raised = FALSE

NObjects == 0..Len(Catalog) \cup {DefaultNObjects}

\* the runs that vary the catalog snapshot and the range
SelInitRange ==
    /\ like \in [CatalogUids -> 0..MaxLike]
    /\ \E a \in 0..Len(Catalog), b \in 0..(Len(Catalog) + 1), n \in NObjects,
          sk \in BOOLEAN :
          sel_args = [start_i |-> a, end_i |-> b, n_objects |-> n,
                      skip_completed |-> sk, uid_json_path |-> "missing.json"]
    /\ json_uids = <<>>
    /\ bucket = Listing([u \in CatalogUids |->
                           IF u = "u1" THEN ExpectedFileCount ELSE 0], Len(Catalog))

\* the runs that vary the manifest and the bucket
SelInitBucket ==
    /\ like = [u \in CatalogUids |-> IF u \in {"u1", "u3"} THEN 1 ELSE 0]
    /\ \E n \in NObjects, sk \in BOOLEAN,
          path \in {"None", "missing.json", "uids.json"} :
          sel_args = [start_i |-> 0, end_i |-> Len(Catalog), n_objects |-> n,
                      skip_completed |-> sk, uid_json_path |-> path]
    /\ json_uids \in JsonLists
    /\ bucket \in Buckets

SelInit ==
    /\ CapturerIdle
    /\ sel_pc = "exists"
    /\ listed = FALSE
    /\ uids = <<>>
    /\ selected = <<>>
    /\ written = <<>>
    /\ SelInitRange \/ SelInitBucket

\* line 54
CheckManifest ==
    /\ sel_pc = "exists"
    /\ sel_pc' = CASE PathExists(sel_args.uid_json_path) = "TypeError" -> "raised"
                   [] PathExists(sel_args.uid_json_path) = "yes" -> "load"
                   [] PathExists(sel_args.uid_json_path) = "no" -> "recompute"
    /\ UNCHANGED <<sel_args, like, json_uids, bucket, listed, uids, selected, written,
                   cvars>>

\* lines 55-56
LoadManifest ==
    /\ sel_pc = "load"
    /\ uids' = json_uids
    /\ selected' = json_uids
    /\ sel_pc' = "filter"
    /\ UNCHANGED <<sel_args, like, json_uids, bucket, listed, written, cvars>>

\* lines 58-63
Recompute ==
    /\ sel_pc = "recompute"
    /\ LET shuffled == Shuffle42(Catalog)
           sliced == PySlice(shuffled, sel_args.start_i, sel_args.end_i)
           top == PySlice(SortedByLikeDesc(sliced), 0, sel_args.n_objects)
       IN /\ uids' = top
          /\ selected' = top
    /\ sel_pc' = "filter"
    /\ UNCHANGED <<sel_args, like, json_uids, bucket, listed, written, cvars>>

\* lines 66-68
FilterCompleted ==
    /\ sel_pc = "filter"
    /\ \/ /\ sel_args.skip_completed
          /\ listed' = TRUE
          /\ uids' = Without(uids, get_completed_uids(bucket))
       \/ /\ ~sel_args.skip_completed
          /\ UNCHANGED <<listed, uids>>
    /\ sel_pc' = "write"
    /\ UNCHANGED <<sel_args, like, json_uids, bucket, selected, written, cvars>>

\* lines 70-76
WriteOutput ==
    /\ sel_pc = "write"
    /\ written' = [k \in 1..Len(uids) |-> UrlOf(uids[k])]
    /\ sel_pc' = "done"
    /\ UNCHANGED <<sel_args, like, json_uids, bucket, listed, uids, selected, cvars>>

SelNext ==
    \/ CheckManifest
    \/ LoadManifest
    \/ Recompute
    \/ FilterCompleted
    \/ WriteOutput

SelSpec == SelInit /\ [][SelNext]_vars

(***************************************************************************)
(* Properties of the Capturer.                                             *)
(***************************************************************************)
HasOp(op) == \E k \in 1..Len(oplog) : oplog[k] = op

\* the file save_images is given: the reference itself, or the downloaded copy
AssetFile ==
    IF object_path.scheme = "http" THEN DownloadName(object_path.name)
    ELSE object_path.name
AssetUid == Uid(AssetFile)

\* the decimal value of a sequence of digits
RECURSIVE NumOf(_)
NumOf(ds) ==
    IF Len(ds) = 0 THEN 0 ELSE 10 * NumOf(SubSeq(ds, 1, Len(ds) - 1)) + ds[Len(ds)]

\* the round-robin rule of the specification
ExpectedSplit(n) ==
    CASE n % 3 = 2 -> "test"
      [] n % 3 = 1 -> "val"
      [] n % 3 = 0 -> "train"

IsImage(path) == path \in DOMAIN outfs /\ outfs[path].state = "image"

\* C1: every frame index n already processed by the render loop belongs to
\* exactly one split, the one the round-robin rule gives it: its image is
\* rendered into that split's directory and into no other, and its pose
\* record is in that split's list, once, and in no other list.
C1_SplitAssignment ==
    \A n \in 0..(i - 1) : \A m \in ModeSet :
        LET at == {k \in 1..Len(frames[m]) : NumOf(frames[m][k].file_path.num) = n}
        IN /\ IsImage([dir |-> AssetUid, kind |-> "png", mode |-> m, num |-> Format03d(n)])
                <=> (m = ExpectedSplit(n))
           /\ Cardinality(at) = (IF m = ExpectedSplit(n) THEN 1 ELSE 0)
           /\ \A k \in at : frames[m][k].file_path.mode = m

C1_Witness ==
    /\ pc = "loop"
    /\ i = 4
    /\ Len(frames["train"]) = 2
    /\ Len(frames["val"]) = 1
    /\ Len(frames["test"]) = 1

\* os.path.splitext: the basename without its extension
BasenameWithoutExtension(name) ==
    IF Len(name) > 1 THEN SubSeq(name, 1, Len(name) - 1) ELSE name

RenderOps == {"reset", "import", "normalize", "light", "camera", "render", "open",
              "dump", "export"}

SkipsUnder(d) ==
    ManifestPath(d, "train") \in DOMAIN pre_outfs =>
        /\ \A k \in 1..Len(oplog) : oplog[k] \notin RenderOps
        /\ \A p \in DOMAIN pre_outfs :
              p.dir = d => p \in DOMAIN outfs /\ outfs[p] = pre_outfs[p]
        /\ (pc = "exit" /\ ~raised) =>
              stdout = <<[line |-> "Finished", path |-> AssetFile]>>

\* C2: when transforms_train.json exists under output_dir/<uid>, uid being the
\* basename of the asset file without its extension, the run resets, imports,
\* renders, writes and exports nothing, leaves the files under output_dir/<uid>
\* as they were and, when nothing raises, reports the asset as finished.
C2_SkipByBasename == SkipsUnder(BasenameWithoutExtension(AssetFile))

\* C2, with the identifier the code derives (the basename up to its first dot)
C2_SkipByFirstComponent == SkipsUnder(AssetUid)

C2_Witness ==
    /\ pc = "exit"
    /\ ~raised
    /\ ManifestPath(AssetUid, "train") \in DOMAIN pre_outfs
    /\ HasOp("skip")

Completed == pc = "exit" /\ ~raised /\ HasOp("export")

ManifestsOf(d) == {p \in DOMAIN outfs : p.dir = d /\ p.kind = "transforms"}

\* C3: after a run that rendered to its end with num_images = N >= 1, exactly
\* the three manifests exist; the manifest of split s lists in increasing index
\* order one frame for each index of [0, N) the rule gives to s and no other;
\* each file_path is s/<index, zero-padded to 3 digits> and names a rendered
\* image; the three frame counts add up to N.
C3_Manifests ==
    (Completed /\ num_images >= 1) =>
        /\ ManifestsOf(AssetUid) = {ManifestPath(AssetUid, m) : m \in ModeSet}
        /\ \A m \in ModeSet :
              LET doc == outfs[ManifestPath(AssetUid, m)]
                  fr == doc.frames
              IN /\ doc.state = "written"
                 /\ \A k \in 1..Len(fr) :
                       /\ fr[k].file_path.mode = m
                       /\ Len(fr[k].file_path.num) = 3
                       /\ NumOf(fr[k].file_path.num) \in 0..(num_images - 1)
                       /\ ExpectedSplit(NumOf(fr[k].file_path.num)) = m
                       /\ IsImage([dir |-> AssetUid, kind |-> "png", mode |-> m,
                                   num |-> fr[k].file_path.num])
                 /\ \A k \in 1..(Len(fr) - 1) :
                       NumOf(fr[k].file_path.num) < NumOf(fr[k + 1].file_path.num)
                 /\ \A n \in 0..(num_images - 1) :
                       ExpectedSplit(n) = m =>
                           \E k \in 1..Len(fr) : NumOf(fr[k].file_path.num) = n
        /\ Len(outfs[ManifestPath(AssetUid, "train")].frames)
             + Len(outfs[ManifestPath(AssetUid, "val")].frames)
             + Len(outfs[ManifestPath(AssetUid, "test")].frames) = num_images

C3_Witness ==
    /\ Completed
    /\ num_images = 3
    /\ Len(outfs[ManifestPath(AssetUid, "train")].frames) = 1
    /\ Len(outfs[ManifestPath(AssetUid, "val")].frames) = 1
    /\ Len(outfs[ManifestPath(AssetUid, "test")].frames) = 1

\* a token that denotes a number: digits with at most one decimal point
IsNumber(tok) ==
    /\ \E k \in 1..Len(tok) : IsDigit(tok[k])
    /\ \A k \in 1..Len(tok) : IsDigit(tok[k]) \/ tok[k] = "."
    /\ Cardinality({k \in 1..Len(tok) : tok[k] = "."}) <= 1

\* C7: a numeric --camera_dist, such as 1.2, is not rejected at argument
\* parsing, and an integer one is the radius of every frame.
C7_NumericCameraDistAccepted ==
    IsNumber(argv_camera_dist) =>
        /\ pc # "usage_error"
        /\ IsInt(argv_camera_dist) =>
              \A m \in ModeSet : \A k \in 1..Len(frames[m]) :
                  frames[m][k].radius = NumOf([j \in 1..Len(argv_camera_dist) |->
                                                 DigitVal(argv_camera_dist[j])])

C8_Caught ==
    /\ pc # "uncaught"
    /\ raised => pc \in {"except", "exit"}
    /\ (raised /\ pc = "exit") =>
          /\ Len(stdout) >= 1
          /\ stdout[Len(stdout)] = [line |-> "Failed to render", path |-> object_path.name]
C8_NoRollback == DOMAIN outfs \subseteq DOMAIN outfs'

\* C8: an exception raised in the per-asset pipeline never leaves the try
\* block uncaught; the run ends with the line "Failed to render" and the asset
\* reference of the command line, and no file under output_dir is removed.
C8_FailuresCaught == []C8_Caught /\ [][C8_NoRollback]_vars

C8_Witness ==
    /\ pc = "exit"
    /\ raised
    /\ HasOp("render")
    /\ stdout = <<[line |-> "Failed to render", path |-> object_path.name]>>

\* C9: at the end of an invocation on a URL no downloaded file of the asset,
\* temporary or final, is left in tmp-objects; a local asset file is never
\* downloaded over, renamed or removed.
C9_NoDownloadLeft ==
    pc = "exit" =>
        /\ object_path.scheme = "http" =>
              tmp_objects \cap {DownloadName(object_path.name),
                                DownloadTmpName(object_path.name)} = {}
        /\ object_path.scheme # "http" =>
              /\ user_files = {object_path.name}
              /\ tmp_objects = {}

\* C10: when no transforms_train.json exists for the asset at the start, it
\* exists later only if the render loop has rendered all of the frames
\* 0..num_images-1, and transforms_val.json, transforms_test.json and the mesh
\* are written only after it.
C10_MarkerAfterLoop ==
    ManifestPath(AssetUid, "train") \notin DOMAIN pre_outfs =>
        /\ ManifestPath(AssetUid, "train") \in DOMAIN outfs =>
              /\ i = num_images
              /\ pc \notin {"loop"}
              /\ \A n \in 0..(num_images - 1) :
                    IsImage([dir |-> AssetUid, kind |-> "png", mode |-> ExpectedSplit(n),
                             num |-> Format03d(n)])
        /\ \A p \in DOMAIN outfs :
              (p.dir = AssetUid /\ p.kind \in {"transforms", "mesh"}
                 /\ outfs[p].state # "old")
                => ManifestPath(AssetUid, "train") \in DOMAIN outfs

C10_Witness ==
    /\ pc = "exit"
    /\ raised
    /\ num_images >= 2
    /\ HasOp("render")
    /\ ManifestPath(AssetUid, "train") \notin DOMAIN pre_outfs
    /\ ManifestPath(AssetUid, "train") \notin DOMAIN outfs

(***************************************************************************)
(* Properties of the Selector.                                             *)
(***************************************************************************)
Recomputed == sel_pc \in {"filter", "write", "done"} /\ PathExists(sel_args.uid_json_path) = "no"

\* C4: when the identifiers are recomputed, the selection is determined by
\* the catalog snapshot and (start_i, end_i, n_objects): its k-th element is
\* the identifier of the slice [start_i, end_i) of the seed-42 shuffle that
\* exactly k-1 identifiers of the slice precede, where u precedes v when u has
\* more likes, or as many and an earlier place in the shuffled slice; its
\* length is n_objects, or the length of the slice when that is shorter.
C4_TopNByLikes ==
    Recomputed =>
        LET sh == Shuffle42(Catalog)
            places == {k \in 1..Len(sh) : sel_args.start_i < k /\ k <= sel_args.end_i}
            Precedes(a, b) == \/ like[sh[a]] > like[sh[b]]
                              \/ like[sh[a]] = like[sh[b]] /\ a < b
            Rank(b) == Cardinality({a \in places : Precedes(a, b)})
        IN /\ Len(selected) = Min(sel_args.n_objects, Cardinality(places))
           /\ \A k \in 1..Len(selected) :
                 \E b \in places : sh[b] = selected[k] /\ Rank(b) = k - 1

C4_Witness ==
    /\ Recomputed
    /\ sel_args.start_i = 1
    /\ sel_args.end_i = 4
    /\ sel_args.n_objects = 2
    /\ like = [u \in CatalogUids |-> IF u = "u1" THEN 0 ELSE 1]
    /\ selected = <<"u2", "u4">>

CountUnder(d) == Cardinality({k \in 1..Len(bucket) : bucket[k][1] = d})
KeepsUrl(uid) == CountUnder(uid) # 12

\* C5: with skip_completed the output holds no URL of an identifier whose
\* prefix holds exactly 12 objects and holds, in their order, the URLs of all
\* other selected identifiers; without skip_completed the bucket is not listed
\* and the output holds the URL of every selected identifier.
C5_CompletedFilter ==
    sel_pc = "done" =>
        /\ sel_args.skip_completed =>
              /\ listed
              /\ written = [k \in 1..Len(SelectSeq(selected, KeepsUrl)) |->
                              UrlOf(SelectSeq(selected, KeepsUrl)[k])]
              /\ \A u \in CatalogUids :
                    CountUnder(u) = 12 => \A k \in 1..Len(written) : written[k] # UrlOf(u)
        /\ ~sel_args.skip_completed =>
              /\ ~listed
              /\ written = [k \in 1..Len(selected) |-> UrlOf(selected[k])]

C5_Witness ==
    /\ sel_pc = "done"
    /\ sel_args.skip_completed
    /\ selected = <<"u2", "u1", "u3">>
    /\ CountUnder("u1") = 12
    /\ CountUnder("u2") = 13
    /\ CountUnder("u3") = 13
    /\ written = <<UrlOf("u2"), UrlOf("u3")>>

\* C6: the identifiers are loaded from uid_json_path only when it is given and
\* the file exists; when it is not given, or names no file, the run raises no
\* error, recomputes the identifiers and writes input_models_path.json.
C6_MissingManifestRecomputes ==
    /\ sel_pc = "load" =>
          sel_args.uid_json_path # "None" /\ sel_args.uid_json_path = "uids.json"
    /\ (sel_args.uid_json_path = "None" \/ sel_args.uid_json_path # "uids.json") =>
          sel_pc \in {"exists", "recompute", "filter", "write", "done"}

====
